---- MODULE Spec2Model ----
(***************************************************************************)
(* Detection and deduplication core of LexAudit:                           *)
(*   extraction/detector/snippets.py          (boundary engine)            *)
(*   extraction/detector/deduplicator.py      (clustering, reconciliation) *)
(*   extraction/detector/citation_detector.py (orchestrator)               *)
(*   extraction/detector/linker_adapter.py    (linker invocation)          *)
(* Texts are sequences of one-character strings; Python's 0-based index i  *)
(* is element i+1 of the sequence.                                         *)
(***************************************************************************)
EXTENDS Integers, Sequences, FiniteSets, TLC

\* ------------------------------------------------------------------ bounds
MaxLen == 3          \* longest text of the boundary-engine specification
MaxMin == 2          \* largest min_chars
MaxLim == 2          \* largest max_chars / max_backtrack / max_ahead

\* ------------------------------------------------------------- Python bits
\* Optional[int]: None is the empty sequence, an int v is <<v>>.
None == << >>
Some(v) == << v >>
Min2(a, b) == IF a <= b THEN a ELSE b
Max2(a, b) == IF a >= b THEN a ELSE b

\* Marker for an IndexError raised by text[i] with i = len(text).
IndexError == -1

Ch(text, i) == text[i + 1]
isspace(c) == c \in {" ", "\n"}
isdigit(c) == c \in {"0", "1", "2", "3", "4", "5", "6", "7", "8", "9"}
lower(c) == IF c = "N" THEN "n" ELSE c
Slice(text, a, b) == SubSeq(text, a + 1, b)

RECURSIVE TextsOfLen(_, _)
TextsOfLen(alphabet, n) ==
  IF n = 0 THEN { << >> }
  ELSE { Append(t, c) : t \in TextsOfLen(alphabet, n - 1), c \in alphabet }
TextsUpTo(alphabet, n) == UNION { TextsOfLen(alphabet, k) : k \in 0..n }

\* ------------------------------------------------------------ snippets.py
HARD_PUNCT == {".", "!", "?"}
SOFT_PUNCT == {";", ":"}
ABBREVIATIONS ==
  { <<"a","r","t",".">>, <<"a","r","t","s",".">>, <<"i","n","c",".">>,
    <<"i","n","c","s",".">>, <<"a","l",".">>, <<"n",".">>, <<"n","º">>,
    <<"n","o",".">>, <<"v","o","l",".">>, <<"v",".">>, <<"v","s",".">> }

is_decimal_point(text, i) ==
  IF i < 0 \/ i >= Len(text) \/ Ch(text, i) # "." THEN FALSE
  ELSE /\ i - 1 >= 0 /\ isdigit(Ch(text, i - 1))
       /\ i + 1 < Len(text) /\ isdigit(Ch(text, i + 1))

RECURSIVE TokenStart(_, _)
TokenStart(text, j) ==
  IF j >= 0 /\ ~isspace(Ch(text, j)) THEN TokenStart(text, j - 1) ELSE j

\* Variant comparing the token without lowercasing it.
abbreviation_case_sensitive(text, i) ==
  IF i < 0 \/ i >= Len(text) \/ Ch(text, i) # "." THEN FALSE
  ELSE LET j == TokenStart(text, i - 1)
       IN Slice(text, j + 1, i + 1) \in ABBREVIATIONS

looks_like_abbreviation(text, i) ==
  IF i < 0 \/ i >= Len(text) \/ Ch(text, i) # "." THEN FALSE
  ELSE LET j == TokenStart(text, i - 1)
           raw == Slice(text, j + 1, i + 1)
           token == [k \in 1..Len(raw) |-> lower(raw[k])]
       IN token \in ABBREVIATIONS

is_hard_break(text, i) ==
  LET c == Ch(text, i) IN
  IF c \in HARD_PUNCT
    THEN ~(c = "." /\ (is_decimal_point(text, i) \/ looks_like_abbreviation(text, i)))
    ELSE c = "\n" /\ i - 1 >= 0 /\ Ch(text, i - 1) = "\n"

is_soft_break(text, i) ==
  LET c == Ch(text, i) IN
  IF c \in SOFT_PUNCT THEN TRUE
  ELSE c = "\n" /\ ~(i - 1 >= 0 /\ Ch(text, i - 1) = "\n")

\* The while loop of find_left_boundary; text[i] with i = len(text) raises.
RECURSIVE ScanLeft(_, _, _, _)
ScanLeft(text, i, floor, best_soft) ==
  IF i < floor THEN (IF best_soft # None THEN best_soft[1] ELSE floor)
  ELSE IF i >= Len(text) THEN IndexError
  ELSE IF is_hard_break(text, i) THEN i + 1
  ELSE ScanLeft(text, i - 1, floor,
                IF best_soft = None /\ is_soft_break(text, i) THEN Some(i + 1)
                ELSE best_soft)

find_left_boundary(text, anchor0, min_chars, max_backtrack) ==
  IF text = << >> THEN 0
  ELSE LET n == Len(text)
           anchor == Max2(0, Min2(anchor0, n))
           target == Max2(0, anchor - Max2(0, min_chars))
           floor == IF max_backtrack # None /\ max_backtrack[1] # 0
                    THEN Max2(0, anchor - max_backtrack[1]) ELSE 0
       IN ScanLeft(text, target, floor, None)

\* The while loop of find_right_boundary.
RECURSIVE ScanRight(_, _, _, _)
ScanRight(text, i, ceil, best_soft) ==
  IF ~(i < ceil) THEN (IF best_soft # None THEN best_soft[1] ELSE ceil)
  ELSE IF i >= Len(text) THEN IndexError
  ELSE IF is_hard_break(text, i) THEN i + 1
  ELSE ScanRight(text, i + 1, ceil,
                 IF best_soft = None /\ is_soft_break(text, i) THEN Some(i + 1)
                 ELSE best_soft)

find_right_boundary(text, anchor0, min_chars, max_ahead) ==
  IF text = << >> THEN 0
  ELSE LET n == Len(text)
           anchor == Max2(0, Min2(anchor0, n))
           target == Min2(n, anchor + Max2(0, min_chars))
           ceil == IF max_ahead # None /\ max_ahead[1] # 0
                   THEN Min2(n, anchor + max_ahead[1]) ELSE n
       IN ScanRight(text, target, ceil, None)

\* A raised range: the exception of a boundary search propagates.
RaisedRange == << IndexError, IndexError >>

\* Variant without the final clamp (left = min(left, start), right = max(right, end)).
range_without_clamp(text, start0, end0, min_chars, max_chars, lock_left, lock_right) ==
  IF text = << >> THEN << 0, 0 >>
  ELSE LET n == Len(text)
           s1 == Max2(0, Min2(start0, n))
           e1 == Max2(0, Min2(end0, n))
           start == IF s1 > e1 THEN e1 ELSE s1
           end == IF s1 > e1 THEN s1 ELSE e1
           left == IF lock_left THEN start
                   ELSE find_left_boundary(text, start, min_chars, max_chars)
           right == IF left = IndexError THEN IndexError
                    ELSE IF lock_right THEN end
                    ELSE find_right_boundary(text, end, min_chars, max_chars)
       IN IF left = IndexError \/ right = IndexError THEN RaisedRange
          ELSE << left, right >>

build_sentence_bounded_range(text, start0, end0, min_chars, max_chars, lock_left, lock_right) ==
  IF text = << >> THEN << 0, 0 >>
  ELSE LET n == Len(text)
           s1 == Max2(0, Min2(start0, n))
           e1 == Max2(0, Min2(end0, n))
           start == IF s1 > e1 THEN e1 ELSE s1
           end == IF s1 > e1 THEN s1 ELSE e1
           left == IF lock_left THEN start
                   ELSE find_left_boundary(text, start, min_chars, max_chars)
           right == IF left = IndexError THEN IndexError
                    ELSE IF lock_right THEN end
                    ELSE find_right_boundary(text, end, min_chars, max_chars)
       IN IF left = IndexError \/ right = IndexError THEN RaisedRange
          ELSE << Min2(left, start), Max2(right, end) >>

\* The for loop of choose_split_without_overlap over text[left_min:right_max]:
\* the last hard break, and the first soft break that is set while none is kept.
RECURSIVE SplitLoop(_, _, _, _, _)
SplitLoop(text, i, seg_end, best_hard, best_soft) ==
  IF ~(i < seg_end) THEN << best_hard, best_soft >>
  ELSE IF is_hard_break(text, i) THEN SplitLoop(text, i + 1, seg_end, Some(i + 1), best_soft)
  ELSE IF best_soft = None /\ is_soft_break(text, i)
    THEN SplitLoop(text, i + 1, seg_end, best_hard, Some(i + 1))
  ELSE SplitLoop(text, i + 1, seg_end, best_hard, best_soft)

\* The while loop from the midpoint; text[j] with j >= len(text) raises.
RECURSIVE MidLoop(_, _, _, _)
MidLoop(text, j, left_min, right_max) ==
  IF ~(j > left_min) THEN right_max
  ELSE IF j >= Len(text) THEN IndexError
  ELSE IF isspace(Ch(text, j)) THEN j
  ELSE MidLoop(text, j - 1, left_min, right_max)

\* prefer_rightmost is accepted by the code and never read.
choose_split_without_overlap(text, left_min0, right_max0) ==
  LET left_min == Max2(0, left_min0)
      right_max == Max2(left_min, right_max0)
      best == SplitLoop(text, left_min, Min2(right_max, Len(text)), None, None)
  IN IF best[1] # None THEN best[1][1]
     ELSE IF best[2] # None THEN best[2][1]
     ELSE MidLoop(text, (left_min + right_max) \div 2, left_min, right_max)

\* --------------------------------------------------------- deduplicator.py
\* Python's text[a:b] for 0 <= a, b (b beyond the text is cut, a >= b is empty).
PySlice(text, a, b) == SubSeq(text, a + 1, Min2(b, Len(text)))

RECURSIVE lstrip(_)
lstrip(s) == IF s # << >> /\ isspace(Head(s)) THEN lstrip(Tail(s)) ELSE s
RECURSIVE rstrip(_)
rstrip(s) ==
  IF s # << >> /\ isspace(s[Len(s)]) THEN rstrip(SubSeq(s, 1, Len(s) - 1)) ELSE s
strip(s) == rstrip(lstrip(s))

\* Tuple comparison of two (a, b) keys.
KeyLess(k1, k2) == k1[1] < k2[1] \/ (k1[1] = k2[1] /\ k1[2] < k2[2])

\* sorted(xs, key=...): stable, so an element goes after those of equal key.
RECURSIVE InsertByKey(_, _, _)
InsertByKey(srt, x, key) ==
  IF srt = << >> THEN << x >>
  ELSE IF KeyLess(key[x], key[Head(srt)]) THEN << x >> \o srt
  ELSE << Head(srt) >> \o InsertByKey(Tail(srt), x, key)

\* Variant that leaves the list in the order given.
unsorted(xs, key) == xs

RECURSIVE sorted(_, _)
sorted(xs, key) ==
  IF xs = << >> THEN << >>
  ELSE InsertByKey(sorted(SubSeq(xs, 1, Len(xs) - 1), key), xs[Len(xs)], key)

\* min(xs, key=...): the first element of least key.
RECURSIVE MinByKey(_, _)
MinByKey(xs, key) ==
  IF Len(xs) = 1 THEN xs[1]
  ELSE LET m == MinByKey(Tail(xs), key)
       IN IF KeyLess(key[m], key[Head(xs)]) THEN m ELSE Head(xs)

\* Variant sorting in descending order: key=lambda c: (-c.start, -c.end).
SpanKeyDescending(h) == [id \in DOMAIN h |-> << 0 - h[id].start, 0 - h[id].end >>]

\* key=lambda c: (c.start, c.end) over the suspect objects of heap h.
SpanKey(h) == [id \in DOMAIN h |-> << h[id].start, h[id].end >>]

overlaps(a, b) == (a[1] < b[2]) /\ (b[1] < a[2])

Cluster(members, prelim_left, prelim_right, cov_start, cov_end) ==
  [members |-> members, prelim_left |-> prelim_left, prelim_right |-> prelim_right,
   cov_start |-> cov_start, cov_end |-> cov_end, snip_start |-> 0, snip_end |-> 0,
   rep |-> None]

\* Variant dropping only the regex suspects that lie inside a linker span.
filter_regex_inside_linker(h, linkers, regexes) ==
  SelectSeq(regexes, LAMBDA c :
    ~ \E k \in 1..Len(linkers) :
        h[linkers[k]].start <= h[c].start /\ h[c].end <= h[linkers[k]].end)

filter_regex_overlapping_linker(h, linkers, regexes) ==
  SelectSeq(regexes, LAMBDA c :
    ~ \E k \in 1..Len(linkers) :
        overlaps(<< h[c].start, h[c].end >>, << h[linkers[k]].start, h[linkers[k]].end >>))

preliminary_window(text, s, min_chars, max_chars) ==
  build_sentence_bounded_range(text, s.start, s.end, min_chars, max_chars, FALSE, FALSE)

\* Variant that keeps windows that merely touch in separate clusters.
RECURSIVE BuildLoopTouchingApart(_, _, _)
BuildLoopTouchingApart(ws, clusters, h) ==
  IF ws = << >> THEN clusters
  ELSE LET w == Head(ws)
           suspect == h[w[3]]
           current == clusters[Len(clusters)]
       IN IF clusters = << >> \/ w[1] >= current.prelim_right
            THEN BuildLoopTouchingApart(Tail(ws),
                           Append(clusters, Cluster(<< w[3] >>, w[1], w[2],
                                                    suspect.start, suspect.end)), h)
            ELSE BuildLoopTouchingApart(Tail(ws),
                           [clusters EXCEPT ![Len(clusters)] =
                              [current EXCEPT !.members = Append(@, w[3]),
                                              !.prelim_right = Max2(@, w[2]),
                                              !.cov_start = Min2(@, suspect.start),
                                              !.cov_end = Max2(@, suspect.end)]], h)

\* Variant that leaves prelim_right at the first member's right edge.
RECURSIVE BuildLoopKeepsRight(_, _, _)
BuildLoopKeepsRight(ws, clusters, h) ==
  IF ws = << >> THEN clusters
  ELSE LET w == Head(ws)
           suspect == h[w[3]]
           current == clusters[Len(clusters)]
       IN IF clusters = << >> \/ w[1] > current.prelim_right
            THEN BuildLoopKeepsRight(Tail(ws),
                           Append(clusters, Cluster(<< w[3] >>, w[1], w[2],
                                                    suspect.start, suspect.end)), h)
            ELSE BuildLoopKeepsRight(Tail(ws),
                           [clusters EXCEPT ![Len(clusters)] =
                              [current EXCEPT !.members = Append(@, w[3]),
                                              !.cov_start = Min2(@, suspect.start),
                                              !.cov_end = Max2(@, suspect.end)]], h)

\* The loop body of _build_clusters over the sorted windows ws.
RECURSIVE BuildLoop(_, _, _)
BuildLoop(ws, clusters, h) ==
  IF ws = << >> THEN clusters
  ELSE LET w == Head(ws)
           suspect == h[w[3]]
           current == clusters[Len(clusters)]
       IN IF clusters = << >> \/ w[1] > current.prelim_right
            THEN BuildLoop(Tail(ws),
                           Append(clusters, Cluster(<< w[3] >>, w[1], w[2],
                                                    suspect.start, suspect.end)), h)
            ELSE BuildLoop(Tail(ws),
                           [clusters EXCEPT ![Len(clusters)] =
                              [current EXCEPT !.members = Append(@, w[3]),
                                              !.prelim_right = Max2(@, w[2]),
                                              !.cov_start = Min2(@, suspect.start),
                                              !.cov_end = Max2(@, suspect.end)]], h)

\* Variant that never merges: every window starts a cluster of its own.
build_clusters_without_merge(windows, h) ==
  LET key == [k \in 1..Len(windows) |-> << windows[k][1], windows[k][2] >>]
      order == sorted([k \in 1..Len(windows) |-> k], key)
  IN [k \in 1..Len(order) |->
        LET w == windows[order[k]]
        IN Cluster(<< w[3] >>, w[1], w[2], h[w[3]].start, h[w[3]].end)]

build_clusters(windows, h) ==
  LET key == [k \in 1..Len(windows) |-> << windows[k][1], windows[k][2] >>]
      order == sorted([k \in 1..Len(windows) |-> k], key)
  IN BuildLoop([k \in 1..Len(order) |-> windows[order[k]]], << >>, h)

\* Variant that takes a member of any detector as a left anchor.
has_left_anchor_of_any_detector(cl, h) ==
  \E k \in 1..Len(cl.members) : h[cl.members[k]].start = cl.cov_start

has_left_linker_anchor(cl, h) ==
  \E k \in 1..Len(cl.members) :
    h[cl.members[k]].detector_type = "linker" /\ h[cl.members[k]].start = cl.cov_start

has_right_linker_anchor(cl, h) ==
  \E k \in 1..Len(cl.members) :
    h[cl.members[k]].detector_type = "linker" /\ h[cl.members[k]].end = cl.cov_end

compute_cluster_snippet_range(text, cl, h, min_chars, max_chars, prefer_linker_edges) ==
  build_sentence_bounded_range(text, cl.cov_start, cl.cov_end, min_chars, max_chars,
                               prefer_linker_edges /\ has_left_linker_anchor(cl, h),
                               prefer_linker_edges /\ has_right_linker_anchor(cl, h))

\* Variant that takes the earliest member whatever its detector.
choose_earliest_member(cl, h) == MinByKey(cl.members, SpanKey(h))

choose_representative(cl, h) ==
  LET linkers == SelectSeq(cl.members, LAMBDA m : h[m].detector_type = "linker")
  IN IF linkers # << >> THEN MinByKey(linkers, SpanKey(h))
     ELSE MinByKey(cl.members, SpanKey(h))

\* ------------------------------------------------------------------ state
VARIABLES
  pc,                 \* position of the running call
  text,               \* the source text
  fn,                 \* the function being called
  args,               \* its keyword / scalar arguments
  ret,                \* value returned by the call (None until it returns)
  exc,                \* exception that left the call ("" when none)
  suspects,           \* the CitationSuspect objects, by identity
  linker_citations,   \* deduplicate: input list (object identities)
  regex_citations,    \* deduplicate: input list (object identities)
  link_sorted,        \* deduplicate: local
  regex_kept,         \* deduplicate: local
  windows,            \* deduplicate: local, (w_left, w_right, suspect)
  clusters,           \* deduplicate / _reconcile_adjacent_clusters: the cluster list
  i,                  \* _reconcile_adjacent_clusters: loop index
  linker_env,         \* detect_with_metrics: what the linker subprocess did (None before)
  calls,              \* detect_with_metrics: collaborators invoked so far, in order
  other               \* a second call running concurrently: its frame while suspended

vars == << pc, text, fn, args, ret, exc, suspects, linker_citations, regex_citations,
           link_sorted, regex_kept, windows, clusters, i, linker_env, calls, other >>

inputs == << text, fn, args, linker_citations, regex_citations, linker_env, calls, other >>
dedupLocals == << link_sorted, regex_kept, windows, clusters, i >>

NoDedupState ==
  /\ suspects = << >>
  /\ linker_citations = << >>
  /\ regex_citations = << >>
  /\ link_sorted = << >>
  /\ regex_kept = << >>
  /\ windows = << >>
  /\ clusters = << >>
  /\ i = 0
  /\ linker_env = None
  /\ calls = << >>
  /\ other = None

\* ----------------------------------------- boundary engine called directly
BoundaryAlphabet == {"a", ".", ";", "\n"}
Limits == {None} \cup {Some(k) : k \in 0..MaxLim}

InitBoundary ==
  /\ pc = "call"
  /\ text \in TextsUpTo(BoundaryAlphabet, MaxLen)
  /\ fn \in {"find_left_boundary", "find_right_boundary", "build_sentence_bounded_range"}
  /\ \/ /\ fn \in {"find_left_boundary", "find_right_boundary"}
        /\ args \in [anchor : -1..(Len(text) + 1), min_chars : 0..MaxMin, limit : Limits]
     \/ /\ fn = "build_sentence_bounded_range"
        /\ args \in [start : -1..(Len(text) + 1), end : -1..(Len(text) + 1),
                     min_chars : 0..MaxMin, max_chars : Limits,
                     lock_left : BOOLEAN, lock_right : BOOLEAN]
  /\ ret = None
  /\ exc = ""
  /\ NoDedupState

\* A boundary search returns Some(position); a range returns << left, right >>.
ReturnPos(p) ==
  /\ pc' = "return"
  /\ IF p = IndexError
       THEN ret' = None /\ exc' = "IndexError"
       ELSE ret' = Some(p) /\ exc' = ""
  /\ UNCHANGED << inputs, suspects, dedupLocals >>

ReturnRange(r) ==
  /\ pc' = "return"
  /\ IF r = RaisedRange
       THEN ret' = None /\ exc' = "IndexError"
       ELSE ret' = r /\ exc' = ""
  /\ UNCHANGED << inputs, suspects, dedupLocals >>

CallFindLeft ==
  /\ pc = "call" /\ fn = "find_left_boundary"
  /\ ReturnPos(find_left_boundary(text, args.anchor, args.min_chars, args.limit))

CallFindRight ==
  /\ pc = "call" /\ fn = "find_right_boundary"
  /\ ReturnPos(find_right_boundary(text, args.anchor, args.min_chars, args.limit))

CallBuildRange ==
  /\ pc = "call" /\ fn = "build_sentence_bounded_range"
  /\ ReturnRange(build_sentence_bounded_range(text, args.start, args.end, args.min_chars,
                                              args.max_chars, args.lock_left, args.lock_right))

NextBoundary == CallFindLeft \/ CallFindRight \/ CallBuildRange

SpecBoundary == InitBoundary /\ [][NextBoundary]_vars

\* ------------------------------------------------------------- deduplicate
MaxText == 3         \* longest text given to deduplicate
\* "." is a hard break; "\n" is whitespace, a soft break, and a hard break when doubled.
DedupAlphabet == {"a", ".", "\n"}
MinCharsChoices == {0, 1}
MaxCharsChoices == {None, Some(1)}

Spans(n) == { sp \in (0..n) \X (0..n) : sp[1] <= sp[2] }
\* Lists of at most two spans, in any order.
SpanLists(n) == { << >> } \cup { << a >> : a \in Spans(n) }
                  \cup { << a, b >> : a \in Spans(n), b \in Spans(n) }

\* What a detector builds for one span (linker_adapter.run_linker, run_scanner).
CitationSuspect(t, sp, detector) ==
  [start |-> sp[1], end |-> sp[2], detector_type |-> detector,
   suspect_string |-> PySlice(t, sp[1], sp[2]), context_snippet |-> << >>,
   identified_citations |-> IF detector = "linker" THEN << "linker" >> ELSE << >>]

InitDedup ==
  /\ pc = "filter"
  /\ fn = "deduplicate"
  /\ text \in TextsUpTo(DedupAlphabet, MaxText)
  /\ args \in [snippet_min_chars : MinCharsChoices, snippet_max_chars : MaxCharsChoices,
               prefer_linker_edges : BOOLEAN]
  /\ \E ls \in SpanLists(Len(text)), rs \in SpanLists(Len(text)) :
       /\ Len(ls) + Len(rs) <= 2
       /\ suspects = [ id \in 1..(Len(ls) + Len(rs)) |->
                         IF id <= Len(ls) THEN CitationSuspect(text, ls[id], "linker")
                         ELSE CitationSuspect(text, rs[id - Len(ls)], "regex") ]
       /\ linker_citations = [ k \in 1..Len(ls) |-> k ]
       /\ regex_citations = [ k \in 1..Len(rs) |-> Len(ls) + k ]
  /\ ret = None
  /\ exc = ""
  /\ link_sorted = << >>
  /\ regex_kept = << >>
  /\ windows = << >>
  /\ clusters = << >>
  /\ i = 0
  /\ linker_env = None
  /\ calls = << >>
  /\ other = None

\* 1) sort both inputs, drop regex suspects overlapping a linker span
FilterStep ==
  /\ pc = "filter"
  /\ link_sorted' = sorted(linker_citations, SpanKey(suspects))
  /\ regex_kept' = filter_regex_overlapping_linker(
                     suspects, link_sorted', sorted(regex_citations, SpanKey(suspects)))
  /\ pc' = "windows"
  /\ UNCHANGED << inputs, ret, exc, suspects, windows, clusters, i >>

\* 2) preliminary windows; an IndexError of the boundary search leaves deduplicate
WindowsStep ==
  /\ pc = "windows"
  /\ LET ids == link_sorted \o regex_kept
         ws == [ k \in 1..Len(ids) |->
                   LET w == preliminary_window(text, suspects[ids[k]],
                                               args.snippet_min_chars, args.snippet_max_chars)
                   IN << w[1], w[2], ids[k] >> ]
     IN IF \E k \in 1..Len(ws) : ws[k][1] = IndexError
          THEN /\ pc' = "raised" /\ exc' = "IndexError" /\ windows' = windows
          ELSE /\ pc' = "cluster" /\ exc' = exc /\ windows' = ws
  /\ UNCHANGED << inputs, ret, suspects, link_sorted, regex_kept, clusters, i >>

\* 3) cluster by overlapping windows
ClusterStep ==
  /\ pc = "cluster"
  /\ clusters' = build_clusters(windows, suspects)
  /\ pc' = "snippets"
  /\ UNCHANGED << inputs, ret, exc, suspects, link_sorted, regex_kept, windows, i >>

\* 4) snippet range and representative of each cluster
SnippetStep ==
  /\ pc = "snippets"
  /\ LET rng(cl) == compute_cluster_snippet_range(text, cl, suspects,
                      args.snippet_min_chars, args.snippet_max_chars,
                      args.prefer_linker_edges)
     IN IF \E k \in 1..Len(clusters) : rng(clusters[k]) = RaisedRange
          THEN /\ pc' = "raised" /\ exc' = "IndexError" /\ UNCHANGED << clusters, i >>
          ELSE /\ clusters' = [ k \in 1..Len(clusters) |->
                                  [clusters[k] EXCEPT
                                     !.snip_start = rng(clusters[k])[1],
                                     !.snip_end = rng(clusters[k])[2],
                                     !.rep = Some(choose_representative(clusters[k], suspects))] ]
               /\ pc' = "reconcile" /\ i' = 1 /\ exc' = exc
  /\ UNCHANGED << inputs, ret, suspects, link_sorted, regex_kept, windows >>

\* Variant whose trim branch does not advance the index.
ReconcileStepTrimStays ==
  /\ pc = "reconcile"
  /\ i < Len(clusters)
  /\ LET prev == clusters[i]
         curr == clusters[i + 1]
         merged0 == Cluster(prev.members \o curr.members,
                            Min2(prev.prelim_left, curr.prelim_left),
                            Max2(prev.prelim_right, curr.prelim_right),
                            Min2(prev.cov_start, curr.cov_start),
                            Max2(prev.cov_end, curr.cov_end))
         rng == compute_cluster_snippet_range(text, merged0, suspects,
                  args.snippet_min_chars, args.snippet_max_chars, args.prefer_linker_edges)
         merged == [merged0 EXCEPT !.snip_start = rng[1], !.snip_end = rng[2],
                                   !.rep = Some(choose_representative(merged0, suspects))]
     IN IF prev.snip_end <= curr.snip_start
          THEN /\ i' = i + 1 /\ UNCHANGED << clusters, pc, exc >>
        ELSE IF prev.cov_end > curr.cov_start
          THEN IF rng = RaisedRange
                 THEN /\ pc' = "raised" /\ exc' = "IndexError" /\ UNCHANGED << clusters, i >>
                 ELSE /\ clusters' = SubSeq(clusters, 1, i - 1) \o << merged >>
                                       \o SubSeq(clusters, i + 2, Len(clusters))
                      /\ UNCHANGED << i, pc, exc >>
        ELSE /\ clusters' = [clusters EXCEPT ![i].snip_end =
                               Max2(prev.cov_end, Min2(prev.snip_end, curr.snip_start))]
             /\ UNCHANGED << i, pc, exc >>
  /\ UNCHANGED << inputs, ret, suspects, link_sorted, regex_kept, windows >>

\* Variant whose trim does not stop at the coverage end.
ReconcileStepTrimUnclamped ==
  /\ pc = "reconcile"
  /\ i < Len(clusters)
  /\ LET prev == clusters[i]
         curr == clusters[i + 1]
         merged0 == Cluster(prev.members \o curr.members,
                            Min2(prev.prelim_left, curr.prelim_left),
                            Max2(prev.prelim_right, curr.prelim_right),
                            Min2(prev.cov_start, curr.cov_start),
                            Max2(prev.cov_end, curr.cov_end))
         rng == compute_cluster_snippet_range(text, merged0, suspects,
                  args.snippet_min_chars, args.snippet_max_chars, args.prefer_linker_edges)
         merged == [merged0 EXCEPT !.snip_start = rng[1], !.snip_end = rng[2],
                                   !.rep = Some(choose_representative(merged0, suspects))]
     IN IF prev.snip_end <= curr.snip_start
          THEN /\ i' = i + 1 /\ UNCHANGED << clusters, pc, exc >>
        ELSE IF prev.cov_end > curr.cov_start
          THEN IF rng = RaisedRange
                 THEN /\ pc' = "raised" /\ exc' = "IndexError" /\ UNCHANGED << clusters, i >>
                 ELSE /\ clusters' = SubSeq(clusters, 1, i - 1) \o << merged >>
                                       \o SubSeq(clusters, i + 2, Len(clusters))
                      /\ UNCHANGED << i, pc, exc >>
        ELSE /\ clusters' = [clusters EXCEPT ![i].snip_end =
                               Min2(prev.snip_end, curr.snip_start)]
             /\ i' = i + 1
             /\ UNCHANGED << pc, exc >>
  /\ UNCHANGED << inputs, ret, suspects, link_sorted, regex_kept, windows >>

\* Variant that also merges clusters whose coverages merely touch.
ReconcileStepMergesTouching ==
  /\ pc = "reconcile"
  /\ i < Len(clusters)
  /\ LET prev == clusters[i]
         curr == clusters[i + 1]
         merged0 == Cluster(prev.members \o curr.members,
                            Min2(prev.prelim_left, curr.prelim_left),
                            Max2(prev.prelim_right, curr.prelim_right),
                            Min2(prev.cov_start, curr.cov_start),
                            Max2(prev.cov_end, curr.cov_end))
         rng == compute_cluster_snippet_range(text, merged0, suspects,
                  args.snippet_min_chars, args.snippet_max_chars, args.prefer_linker_edges)
         merged == [merged0 EXCEPT !.snip_start = rng[1], !.snip_end = rng[2],
                                   !.rep = Some(choose_representative(merged0, suspects))]
     IN IF prev.snip_end <= curr.snip_start
          THEN /\ i' = i + 1 /\ UNCHANGED << clusters, pc, exc >>
        ELSE IF prev.cov_end >= curr.cov_start
          THEN IF rng = RaisedRange
                 THEN /\ pc' = "raised" /\ exc' = "IndexError" /\ UNCHANGED << clusters, i >>
                 ELSE /\ clusters' = SubSeq(clusters, 1, i - 1) \o << merged >>
                                       \o SubSeq(clusters, i + 2, Len(clusters))
                      /\ UNCHANGED << i, pc, exc >>
        ELSE /\ clusters' = [clusters EXCEPT ![i].snip_end =
                               Max2(prev.cov_end, Min2(prev.snip_end, curr.snip_start))]
             /\ i' = i + 1
             /\ UNCHANGED << pc, exc >>
  /\ UNCHANGED << inputs, ret, suspects, link_sorted, regex_kept, windows >>

\* 5) one iteration of the while loop of _reconcile_adjacent_clusters
ReconcileStep ==
  /\ pc = "reconcile"
  /\ i < Len(clusters)
  /\ LET prev == clusters[i]          \* clusters[i - 1] in 0-based Python
         curr == clusters[i + 1]
         merged0 == Cluster(prev.members \o curr.members,
                            Min2(prev.prelim_left, curr.prelim_left),
                            Max2(prev.prelim_right, curr.prelim_right),
                            Min2(prev.cov_start, curr.cov_start),
                            Max2(prev.cov_end, curr.cov_end))
         rng == compute_cluster_snippet_range(text, merged0, suspects,
                  args.snippet_min_chars, args.snippet_max_chars, args.prefer_linker_edges)
         merged == [merged0 EXCEPT !.snip_start = rng[1], !.snip_end = rng[2],
                                   !.rep = Some(choose_representative(merged0, suspects))]
     IN IF prev.snip_end <= curr.snip_start
          THEN /\ i' = i + 1 /\ UNCHANGED << clusters, pc, exc >>
        ELSE IF prev.cov_end > curr.cov_start
          THEN IF rng = RaisedRange
                 THEN /\ pc' = "raised" /\ exc' = "IndexError" /\ UNCHANGED << clusters, i >>
                 ELSE /\ clusters' = SubSeq(clusters, 1, i - 1) \o << merged >>
                                       \o SubSeq(clusters, i + 2, Len(clusters))
                      /\ UNCHANGED << i, pc, exc >>
        ELSE /\ clusters' = [clusters EXCEPT ![i].snip_end =
                               Max2(prev.cov_end, Min2(prev.snip_end, curr.snip_start))]
             /\ i' = i + 1
             /\ UNCHANGED << pc, exc >>
  /\ UNCHANGED << inputs, ret, suspects, link_sorted, regex_kept, windows >>

\* The loop of _reconcile_adjacent_clusters ends and the cluster list is returned.
ReconcileReturn ==
  /\ pc = "reconcile"
  /\ ~(i < Len(clusters))
  /\ pc' = "emit"
  /\ UNCHANGED << inputs, ret, exc, suspects, dedupLocals >>

\* Variant writing the snippet into every member of the cluster.
RECURSIVE EmitLoopAllMembers(_, _, _)
EmitLoopAllMembers(cls, h, t) ==
  IF cls = << >> THEN h
  ELSE LET cl == Head(cls)
       IN EmitLoopAllMembers(Tail(cls),
            [id \in DOMAIN h |->
               IF \E m \in 1..Len(cl.members) : cl.members[m] = id
                 THEN [h[id] EXCEPT !.context_snippet =
                         strip(PySlice(t, cl.snip_start, cl.snip_end))]
                 ELSE h[id]], t)

\* rep.context_snippet = text[cl.snip_start : cl.snip_end].strip(), cluster by cluster
RECURSIVE EmitLoop(_, _, _)
EmitLoop(cls, h, t) ==
  IF cls = << >> THEN h
  ELSE LET cl == Head(cls)
           rep == IF cl.rep = None THEN choose_representative(cl, h) ELSE cl.rep[1]
       IN EmitLoop(Tail(cls),
                   [h EXCEPT ![rep].context_snippet =
                      strip(PySlice(t, cl.snip_start, cl.snip_end))], t)

\* 6) emit the representatives, sorted by (start, end)
EmitStep ==
  /\ pc = "emit"
  /\ suspects' = EmitLoop(clusters, suspects, text)
  /\ LET final_items == [ k \in 1..Len(clusters) |->
                            IF clusters[k].rep = None
                              THEN choose_representative(clusters[k], suspects)
                              ELSE clusters[k].rep[1] ]
     IN ret' = sorted(final_items, SpanKey(suspects))
  /\ pc' = "done"
  /\ UNCHANGED << inputs, exc, dedupLocals >>

NextDedup ==
  \/ FilterStep \/ WindowsStep \/ ClusterStep \/ SnippetStep
  \/ ReconcileStep \/ ReconcileReturn \/ EmitStep

Spec == InitDedup /\ [][NextDedup]_vars

\* ------------------------------------------------- properties of deduplicate
Returned == pc = "done"
SnippetsComputed == pc \in {"reconcile", "emit", "done"}
ClusterOf(id) == CHOOSE k \in 1..Len(clusters) : clusters[k].rep = Some(id)
LinkerInputs == { linker_citations[k] : k \in 1..Len(linker_citations) }
RegexInputs == { regex_citations[k] : k \in 1..Len(regex_citations) }
OverlapsLinkerInput(id) ==
  \E l \in LinkerInputs :
    suspects[id].start < suspects[l].end /\ suspects[l].start < suspects[id].end

\* C1: any two distinct suspects returned by deduplicate have final snippet
\* ranges [snip_start, snip_end) that do not overlap in the source text.
C1_NoOverlap ==
  Returned =>
    \A a \in 1..Len(ret), b \in 1..Len(ret) :
      a # b =>
        LET ca == clusters[ClusterOf(ret[a])]
            cb == clusters[ClusterOf(ret[b])]
        IN ~(ca.snip_start < cb.snip_end /\ cb.snip_start < ca.snip_end)

\* Two suspects are returned, each with a non-empty snippet range.
C1_Witness ==
  /\ Returned /\ Len(ret) = 2
  /\ \A k \in 1..2 : clusters[k].snip_start < clusters[k].snip_end

\* C2: once snippets are computed (after step 4 and after every reconciliation
\* step) each cluster's snippet contains its coverage, and its coverage
\* contains the span of every member.
C2_Coverage ==
  SnippetsComputed =>
    \A k \in 1..Len(clusters) :
      LET cl == clusters[k] IN
      /\ cl.snip_start <= cl.cov_start /\ cl.cov_end <= cl.snip_end
      /\ \A m \in 1..Len(cl.members) :
           /\ cl.cov_start <= suspects[cl.members[m]].start
           /\ suspects[cl.members[m]].end <= cl.cov_end

\* A cluster of two members whose coverage is wider than either member and
\* whose snippet is wider than the coverage, seen during reconciliation.
C2_Witness ==
  /\ pc = "reconcile" /\ Len(clusters) = 1 /\ Len(clusters[1].members) = 2
  /\ \A m \in 1..2 :
       clusters[1].cov_end - clusters[1].cov_start
         > suspects[clusters[1].members[m]].end - suspects[clusters[1].members[m]].start
  /\ clusters[1].snip_start < clusters[1].cov_start
  /\ clusters[1].cov_end < clusters[1].snip_end

\* C3: a regex suspect whose span overlaps a linker suspect of the input is
\* dropped by the precedence filter, is a member of no cluster and is never
\* returned; for one linker suspect with one regex suspect strictly inside it
\* the output is exactly the linker suspect.
C3_LinkerPrecedence ==
  /\ pc # "filter" =>
       \A k \in 1..Len(regex_kept) : ~OverlapsLinkerInput(regex_kept[k])
  /\ \A k \in 1..Len(clusters) : \A m \in 1..Len(clusters[k].members) :
       suspects[clusters[k].members[m]].detector_type = "regex"
         => ~OverlapsLinkerInput(clusters[k].members[m])
  /\ Returned =>
       /\ \A k \in 1..Len(ret) :
            suspects[ret[k]].detector_type = "regex" => ~OverlapsLinkerInput(ret[k])
       /\ \A l \in LinkerInputs, r \in RegexInputs :
            ( /\ Len(linker_citations) = 1 /\ Len(regex_citations) = 1
              /\ suspects[l].start < suspects[r].start
              /\ suspects[r].start < suspects[r].end
              /\ suspects[r].end < suspects[l].end )
            => ret = << l >>

\* The scenario: a linker suspect, a regex suspect strictly inside it, and the
\* call has returned.
C3_Witness ==
  /\ Returned
  /\ Len(linker_citations) = 1 /\ Len(regex_citations) = 1
  /\ \E l \in LinkerInputs, r \in RegexInputs :
       /\ suspects[l].start < suspects[r].start
       /\ suspects[r].start < suspects[r].end
       /\ suspects[r].end < suspects[l].end

\* C4: the emitted context_snippet of every returned suspect r equals
\* text[a:b] for some a <= r.start and b >= r.end.
C4_SnippetContainsSpan ==
  Returned =>
    \A k \in 1..Len(ret) :
      LET r == suspects[ret[k]] IN
      \E a \in 0..r.start, b \in r.end..Len(text) :
        r.context_snippet = PySlice(text, a, b)

\* C7: the returned list is sorted ascending by (start, end) and holds exactly
\* one suspect, the representative, for each final cluster; empty inputs give
\* an empty output.
C7_SortedOnePerCluster ==
  Returned =>
    /\ \A a \in 1..Len(ret), b \in 1..Len(ret) :
         a < b =>
           \/ suspects[ret[a]].start < suspects[ret[b]].start
           \/ /\ suspects[ret[a]].start = suspects[ret[b]].start
              /\ suspects[ret[a]].end <= suspects[ret[b]].end
    /\ Len(ret) = Len(clusters)
    /\ \A k \in 1..Len(clusters) :
         /\ clusters[k].rep # None
         /\ Cardinality({ a \in 1..Len(ret) : Some(ret[a]) = clusters[k].rep }) = 1
         /\ Cardinality({ a \in 1..Len(ret) :
                           \E m \in 1..Len(clusters[k].members) :
                             clusters[k].members[m] = ret[a] }) = 1
    /\ (linker_citations = << >> /\ regex_citations = << >>) => ret = << >>

\* Two clusters were built from suspects given in descending order, and their
\* representatives are returned.
C7_Witness ==
  /\ Returned /\ Len(ret) = 2 /\ Len(clusters) = 2
  /\ \/ /\ Len(regex_citations) = 2
        /\ suspects[regex_citations[1]].start > suspects[regex_citations[2]].start
     \/ /\ Len(linker_citations) = 2
        /\ suspects[linker_citations[1]].start > suspects[linker_citations[2]].start

\* --------------------------------------- properties of the boundary engine
Returns == pc = "return"

\* C8: find_left_boundary and find_right_boundary return a position p with
\* 0 <= p <= len(text) and do not raise, for every text, every anchor, every
\* min_chars >= 0 and every limit that is None or >= 0.
C8_BoundaryInRange ==
  (Returns /\ fn \in {"find_left_boundary", "find_right_boundary"}) =>
    /\ exc = ""
    /\ ret # None
    /\ 0 <= ret[1] /\ ret[1] <= Len(text)

\* C9: for a non-empty text and a span 0 <= start <= end <= len(text),
\* build_sentence_bounded_range returns (left, right) with 0 <= left <= start
\* and end <= right <= len(text), left = start when lock_left and right = end
\* when lock_right.
C9_RangeContainsSpan ==
  ( /\ Returns /\ fn = "build_sentence_bounded_range"
    /\ text # << >>
    /\ 0 <= args.start /\ args.start <= args.end /\ args.end <= Len(text) ) =>
    /\ exc = ""
    /\ Len(ret) = 2
    /\ 0 <= ret[1] /\ ret[1] <= args.start
    /\ args.end <= ret[2] /\ ret[2] <= Len(text)
    /\ args.lock_left => ret[1] = args.start
    /\ args.lock_right => ret[2] = args.end

\* The span clamped to [0, len(text)] with its endpoints put in order.
Clamped(x) == Max2(0, Min2(x, Len(text)))
NormStart == Min2(Clamped(args.start), Clamped(args.end))
NormEnd == Max2(Clamped(args.start), Clamped(args.end))

\* C10: for every text, every pair of integers start, end and every
\* min_chars >= 0, build_sentence_bounded_range does not raise and returns
\* what it returns for the clamped, ordered span.
C10_DegenerateSpans ==
  (Returns /\ fn = "build_sentence_bounded_range") =>
    /\ exc = ""
    /\ ret = build_sentence_bounded_range(text, NormStart, NormEnd, args.min_chars,
                                          args.max_chars, args.lock_left, args.lock_right)

\* ----------------------------------------------------- detect_with_metrics
\* Non-empty spans of a text of length n (an anchor's text, a regex match).
Matches(n) == { sp \in Spans(n) : sp[1] < sp[2] }

\* What the linker subprocess can do: subprocess.run raises or completes with a
\* return code; stdout is or is not UTF-8; the decorated HTML aligns with the
\* text, does not, or leaves an <a> open; the anchors give the references.
LinkerEnvs(t) ==
  [ run : {"completed", "FileNotFoundError", "PermissionError", "TimeoutExpired"},
    returncode : {0, 1},
    utf8 : BOOLEAN,
    html : {"aligned", "misaligned", "unbalanced"},
    references : { << >> } \cup { << sp >> : sp \in Matches(Len(t)) } ]

\* _run_linker: "" when the decorated output is returned, else the exception.
run_linker_subprocess(env) ==
  IF env.run \in {"FileNotFoundError", "TimeoutExpired"} THEN "LinkerExecutionError"
  ELSE IF env.run # "completed" THEN env.run
  ELSE IF env.returncode # 0 THEN "LinkerExecutionError"
  ELSE IF ~env.utf8 THEN "UnicodeDecodeError"
  ELSE ""

\* run_linker: the exception that leaves it ("" when none) and the spans found.
run_linker(env) ==
  LET e == run_linker_subprocess(env) IN
  IF e # "" THEN [exc |-> e, references |-> << >>]
  ELSE IF env.html # "aligned" THEN [exc |-> "LinkerParsingError", references |-> << >>]
  ELSE [exc |-> "", references |-> env.references]

\* Keyword parameters of deduplicate, and the keywords of the orchestrator's call.
DeduplicateKeywords == {"snippet_min_chars", "snippet_max_chars", "prefer_linker_edges"}
CallKeywords == {"max_gap"}

resolved_use_linker ==
  IF args.use_linker = None THEN args.self_use_linker ELSE args.use_linker[1]

InitDetect ==
  /\ pc = "linker"
  /\ fn = "detect_with_metrics"
  /\ text \in TextsUpTo(DedupAlphabet, MaxText)
  /\ args \in [self_use_linker : BOOLEAN, use_linker : {None, Some(TRUE), Some(FALSE)}]
  /\ ret = None
  /\ exc = ""
  /\ NoDedupState

\* The objects a detector appends to the heap for its spans, and their identities.
NewSuspects(h, sps, detector) ==
  [ id \in 1..(Len(h) + Len(sps)) |->
      IF id <= Len(h) THEN h[id] ELSE CitationSuspect(text, sps[id - Len(h)], detector) ]
\* Variant handing out the identities of the objects already built.
NewIdsFromStart(h, sps) == [ k \in 1..Len(sps) |-> k ]

NewIds(h, sps) == [ k \in 1..Len(sps) |-> Len(h) + k ]

\* Variant that calls the linker again after a LinkerExecutionError.
LinkerStageWithRetry ==
  /\ pc = "linker"
  /\ IF ~resolved_use_linker
       THEN /\ pc' = "scanner"
            /\ UNCHANGED << linker_env, calls, linker_citations, suspects, exc >>
       ELSE \E env \in LinkerEnvs(text) :
              LET r == run_linker(env) IN
              /\ linker_env' = Some(env)
              /\ calls' = Append(calls, "run_linker")
              /\ IF r.exc = "LinkerExecutionError"
                   THEN /\ pc' = "linker"
                        /\ UNCHANGED << linker_citations, suspects, exc >>
                   ELSE IF r.exc = "LinkerParsingError"
                   THEN /\ linker_citations' = << >>
                        /\ pc' = "scanner"
                        /\ UNCHANGED << suspects, exc >>
                   ELSE IF r.exc # ""
                   THEN /\ pc' = "raised" /\ exc' = r.exc
                        /\ UNCHANGED << linker_citations, suspects >>
                   ELSE /\ suspects' = NewSuspects(suspects, r.references, "linker")
                        /\ linker_citations' = NewIds(suspects, r.references)
                        /\ pc' = "scanner"
                        /\ exc' = exc
  /\ UNCHANGED << text, fn, args, ret, regex_citations, dedupLocals, other >>

\* if resolved_use_linker: try run_linker except (LinkerExecutionError, LinkerParsingError)
LinkerStage ==
  /\ pc = "linker"
  /\ IF ~resolved_use_linker
       THEN /\ pc' = "scanner"
            /\ UNCHANGED << linker_env, calls, linker_citations, suspects, exc >>
       ELSE \E env \in LinkerEnvs(text) :
              LET r == run_linker(env) IN
              /\ linker_env' = Some(env)
              /\ calls' = Append(calls, "run_linker")
              /\ IF r.exc \in {"LinkerExecutionError", "LinkerParsingError"}
                   THEN /\ linker_citations' = << >>
                        /\ pc' = "scanner"
                        /\ UNCHANGED << suspects, exc >>
                   ELSE IF r.exc # ""
                   THEN /\ pc' = "raised" /\ exc' = r.exc
                        /\ UNCHANGED << linker_citations, suspects >>
                   ELSE /\ suspects' = NewSuspects(suspects, r.references, "linker")
                        /\ linker_citations' = NewIds(suspects, r.references)
                        /\ pc' = "scanner"
                        /\ exc' = exc
  /\ UNCHANGED << text, fn, args, ret, regex_citations, dedupLocals, other >>

\* regex_citations = run_scanner(text): matches in text order, none empty
ScannerStage ==
  /\ pc = "scanner"
  /\ \E ms \in { << >> } \cup { << sp >> : sp \in Matches(Len(text)) }
               \cup { << a, b >> : a \in Matches(Len(text)), b \in Matches(Len(text)) } :
       /\ \A k \in 1..(Len(ms) - 1) : ms[k][2] <= ms[k + 1][1]
       /\ suspects' = NewSuspects(suspects, ms, "regex")
       /\ regex_citations' = NewIds(suspects, ms)
  /\ calls' = Append(calls, "run_scanner")
  /\ pc' = "dedup"
  /\ UNCHANGED << text, fn, args, ret, exc, linker_citations, linker_env, dedupLocals,
                  other >>

\* final = deduplicate(text, linker_citations, regex_citations, max_gap=...):
\* a keyword deduplicate does not have is a TypeError at the call; otherwise
\* the body of deduplicate would start.
DedupStage ==
  /\ pc = "dedup"
  /\ calls' = Append(calls, "deduplicate")
  /\ IF CallKeywords \subseteq DeduplicateKeywords
       THEN pc' = "filter" /\ exc' = exc
       ELSE pc' = "raised" /\ exc' = "TypeError"
  /\ UNCHANGED << text, fn, args, ret, suspects, linker_citations, regex_citations,
                  linker_env, dedupLocals, other >>

NextDetect == LinkerStage \/ ScannerStage \/ DedupStage

SpecDetect == InitDetect /\ [][NextDetect]_vars

\* --------------------------------------- properties of detect_with_metrics
Invoked(name) == \E k \in 1..Len(calls) : calls[k] = name
LinkerFailed ==
  /\ linker_env # None
  /\ \/ linker_env[1].run # "completed"
     \/ linker_env[1].returncode # 0
     \/ ~linker_env[1].utf8
     \/ linker_env[1].html # "aligned"

\* C5: detect_with_metrics invokes deduplicate with both detector outputs and
\* returns (suspects, metrics) without raising; for the empty text the
\* suspects are empty and num_l1, num_l2, num_final are zero.
C5_DetectReturns ==
  Invoked("deduplicate") =>
    /\ exc = ""
    /\ pc # "raised"
    /\ (text = << >> /\ pc = "done") =>
         (ret = << >> /\ linker_citations = << >> /\ regex_citations = << >>)

\* C6: when use_linker is true and the linker invocation fails in any way, the
\* failure does not leave detect_with_metrics: the linker stage ends with an
\* empty linker list, the scanner is invoked next and the deduplicator is
\* given the empty list.
C6_LinkerBestEffort ==
  LinkerFailed =>
    /\ ~(pc = "raised" /\ calls[Len(calls)] = "run_linker")
    /\ linker_citations = << >>
    /\ pc # "scanner" => Invoked("run_scanner")

\* ------------------------------------- break predicates and split, called directly
\* Letters of the abbreviations "n." / "N.", a digit, the break characters, whitespace.
BreakAlphabet == {"a", "n", "N", "1", ".", "!", ";", "\n", " "}
\* The texts of the two documented examples.
ArtExample ==
  << "N","o","s"," ","t","e","r","m","o","s"," ","d","o"," ","a","r","t","."," ","5","º",
     " ","d","a"," ","C","F","," >>
DecimalExample == << "R","$"," ","9",".","7","8","4",",","0","0" >>

InitBreaks ==
  /\ pc = "call"
  /\ text \in TextsUpTo(BreakAlphabet, MaxLen) \cup {ArtExample, DecimalExample}
  /\ fn \in {"_is_hard_break", "_is_soft_break", "choose_split_without_overlap"}
  /\ \/ /\ fn \in {"_is_hard_break", "_is_soft_break"}
        /\ args \in [i : 0..(Len(text) - 1)]
     \/ /\ fn = "choose_split_without_overlap"
        /\ Len(text) <= MaxLen
        /\ args \in [left_min : -1..(Len(text) + 1), right_max : -1..(Len(text) + 1)]
  /\ ret = None
  /\ exc = ""
  /\ NoDedupState

ReturnBool(b) ==
  /\ pc' = "return"
  /\ ret' = Some(b)
  /\ UNCHANGED << inputs, exc, suspects, dedupLocals >>

CallIsHardBreak ==
  /\ pc = "call" /\ fn = "_is_hard_break"
  /\ ReturnBool(is_hard_break(text, args.i))

CallIsSoftBreak ==
  /\ pc = "call" /\ fn = "_is_soft_break"
  /\ ReturnBool(is_soft_break(text, args.i))

CallChooseSplit ==
  /\ pc = "call" /\ fn = "choose_split_without_overlap"
  /\ ReturnPos(choose_split_without_overlap(text, args.left_min, args.right_max))

NextBreaks == CallIsHardBreak \/ CallIsSoftBreak \/ CallChooseSplit

SpecBreaks == InitBreaks /\ [][NextBreaks]_vars

\* ------------------------------------- properties of the break predicates
\* text[i] is a '.' with a digit immediately before and immediately after it.
BetweenDigits(p) ==
  /\ p >= 1 /\ p + 1 < Len(text)
  /\ isdigit(Ch(text, p - 1)) /\ isdigit(Ch(text, p + 1))

\* text[i] ends a token that starts right after a whitespace (or at the start
\* of the text), holds no whitespace, and is a known abbreviation once lowercased.
EndsAbbreviation(p) ==
  \E j \in 0..p :
    /\ j = 0 \/ isspace(Ch(text, j - 1))
    /\ \A k \in j..p : ~isspace(Ch(text, k))
    /\ [k \in 1..(p + 1 - j) |-> lower(Ch(text, j + k - 1))] \in ABBREVIATIONS

\* C11: _is_hard_break(text, i) is true exactly when text[i] is '!' or '?', or
\* a '.' that is neither between two digits nor the end of a whitespace-delimited
\* token that is a known abbreviation in lowercase, or a newline immediately
\* preceded by a newline; the '.' after "art" and the '.' of "9.784" are not
\* hard breaks.
C11_HardBreak ==
  (Returns /\ fn = "_is_hard_break") =>
    LET c == Ch(text, args.i) IN
    /\ ret[1] = ( \/ c \in {"!", "?"}
                  \/ c = "." /\ ~BetweenDigits(args.i) /\ ~EndsAbbreviation(args.i)
                  \/ c = "\n" /\ args.i >= 1 /\ Ch(text, args.i - 1) = "\n" )
    /\ (text = ArtExample /\ args.i = 17) => ret = Some(FALSE)
    /\ (text = DecimalExample /\ args.i = 4) => ret = Some(FALSE)

\* The '.' after "art" in the documented example has been judged.
C11_Witness ==
  /\ Returns /\ fn = "_is_hard_break"
  /\ text = ArtExample /\ args.i = 17 /\ Ch(text, args.i) = "."

\* C12: _is_soft_break(text, i) is true exactly when text[i] is ';' or ':', or
\* a newline with no newline immediately before it and none immediately after
\* it; the first newline of a "\n\n" pair is not a soft break.
C12_SoftBreak ==
  (Returns /\ fn = "_is_soft_break") =>
    LET c == Ch(text, args.i) IN
    ret[1] = ( \/ c \in {";", ":"}
               \/ /\ c = "\n"
                  /\ ~(args.i >= 1 /\ Ch(text, args.i - 1) = "\n")
                  /\ ~(args.i + 1 < Len(text) /\ Ch(text, args.i + 1) = "\n") )

\* The greatest element of a non-empty set of integers.
SetMax(S) == CHOOSE m \in S : \A x \in S : x <= m

\* Positions of text[left_min:right_max] for the arguments of the running call.
SegmentPositions ==
  { p \in 0..(Len(text) - 1) : args.left_min <= p /\ p < args.right_max }

\* C15: for every text and every left_min, right_max, choose_split_without_overlap
\* returns without raising a position in [left_min, right_max]: the position
\* right after the last hard break of text[left_min:right_max] if one exists,
\* else right after the last soft break of that segment, else a whitespace
\* position at or left of the midpoint, else right_max.
C15_SplitPoint ==
  (Returns /\ fn = "choose_split_without_overlap") =>
    LET hards == { p \in SegmentPositions : is_hard_break(text, p) }
        softs == { p \in SegmentPositions : is_soft_break(text, p) }
        mid == (Max2(0, args.left_min) + Max2(Max2(0, args.left_min), args.right_max)) \div 2
    IN /\ exc = ""
       /\ ret # None
       /\ (0 <= args.left_min /\ args.left_min <= args.right_max) =>
            (args.left_min <= ret[1] /\ ret[1] <= args.right_max)
       /\ IF hards # {} THEN ret[1] = SetMax(hards) + 1
          ELSE IF softs # {} THEN ret[1] = SetMax(softs) + 1
          ELSE \/ ret[1] = Max2(Max2(0, args.left_min), args.right_max)
               \/ /\ ret[1] <= mid /\ ret[1] < Len(text)
                  /\ isspace(Ch(text, ret[1]))

\* ---------------------------------- break priority of the boundary searches
\* The anchor of the running call clamped to the text, and its scan limits:
\* a limit of None leaves the scan unlimited.
ClampedAnchor == Max2(0, Min2(args.anchor, Len(text)))
LeftStart == Max2(0, ClampedAnchor - args.min_chars)
LeftFloor == IF args.limit = None THEN 0 ELSE Max2(0, ClampedAnchor - args.limit[1])
RightStart == Min2(Len(text), ClampedAnchor + args.min_chars)
RightCeiling ==
  IF args.limit = None THEN Len(text) ELSE Min2(Len(text), ClampedAnchor + args.limit[1])
SetMin(S) == CHOOSE m \in S : \A x \in S : m <= x

\* C16: find_left_boundary returns i+1 for the hard break i nearest to the scan
\* start within [anchor - max_backtrack, anchor - min_chars] (clamped to the
\* text), even when a soft break lies nearer; with no hard break in the range,
\* i+1 for the nearest soft break; with neither, the range floor.
\* find_right_boundary does the same scanning forward from anchor + min_chars
\* towards anchor + max_ahead and falls back to that ceiling.
C16_HardBeforeSoft ==
  /\ (Returns /\ fn = "find_left_boundary" /\ text # << >>) =>
       LET range == { p \in 0..(Len(text) - 1) : LeftFloor <= p /\ p <= LeftStart }
           hards == { p \in range : is_hard_break(text, p) }
           softs == { p \in range : is_soft_break(text, p) }
       IN /\ exc = ""
          /\ ret = Some(IF hards # {} THEN SetMax(hards) + 1
                        ELSE IF softs # {} THEN SetMax(softs) + 1
                        ELSE LeftFloor)
  /\ (Returns /\ fn = "find_right_boundary" /\ text # << >>) =>
       LET range == { p \in 0..(Len(text) - 1) : RightStart <= p /\ p < RightCeiling }
           hards == { p \in range : is_hard_break(text, p) }
           softs == { p \in range : is_soft_break(text, p) }
       IN /\ exc = ""
          /\ ret = Some(IF hards # {} THEN SetMin(hards) + 1
                        ELSE IF softs # {} THEN SetMin(softs) + 1
                        ELSE RightCeiling)

\* --------------------- deduplicate with its default settings on a long text
\* The documented scenario is modelled at a scale of one to ten: every length
\* and position of it is divided by ten, which keeps the order of all the
\* quantities the code compares.
DefaultMinChars == 120     \* SETTINGS.snippet_min_chars
DefaultMaxChars == 600     \* SETTINGS.snippet_max_chars
Scaled(x) == x \div 10
ScenarioLen == 32          \* length of the scaled long text
BreakChars == {".", ";", "\n", " "}
\* Start of the regex suspect: 200 as documented, or farther away.
RegexStarts == {200, 300}

InitScenario ==
  /\ pc = "filter"
  /\ fn = "deduplicate"
  /\ \E p1 \in 0..(ScenarioLen - 1), p2 \in 0..(ScenarioLen - 1),
        c1 \in BreakChars \cup {"a"}, c2 \in BreakChars :
       text = [ k \in 1..ScenarioLen |->
                  IF k - 1 = p2 THEN c2 ELSE IF k - 1 = p1 THEN c1 ELSE "a" ]
  /\ args = [snippet_min_chars |-> Scaled(DefaultMinChars),
             snippet_max_chars |-> Some(Scaled(DefaultMaxChars)),
             prefer_linker_edges |-> TRUE]
  /\ \E r \in RegexStarts :
       suspects = << CitationSuspect(text, << Scaled(10), Scaled(20) >>, "linker"),
                     CitationSuspect(text, << Scaled(r), Scaled(r + 10) >>, "regex") >>
  /\ linker_citations = << 1 >>
  /\ regex_citations = << 2 >>
  /\ ret = None
  /\ exc = ""
  /\ link_sorted = << >>
  /\ regex_kept = << >>
  /\ windows = << >>
  /\ clusters = << >>
  /\ i = 0
  /\ linker_env = None
  /\ calls = << >>
  /\ other = None

SpecScenario == InitScenario /\ [][NextDedup]_vars

\* The documented input: a linker suspect at [10,20) and a regex suspect at
\* [200,210), under the default settings.
DisjointScenario ==
  /\ fn = "deduplicate"
  /\ args.snippet_min_chars = Scaled(DefaultMinChars)
  /\ args.snippet_max_chars = Some(Scaled(DefaultMaxChars))
  /\ Len(text) >= Scaled(210)
  /\ linker_citations = << 1 >> /\ regex_citations = << 2 >>
  /\ suspects[1].start = Scaled(10) /\ suspects[1].end = Scaled(20)
  /\ suspects[2].start = Scaled(200) /\ suspects[2].end = Scaled(210)

\* C13 as stated: with the default settings, deduplicate on a text holding a
\* linker suspect at [10,20) and a regex suspect at [200,210) builds two
\* clusters and returns both suspects, each with its own span unchanged and
\* with non-overlapping snippets.
C13_TwoClusters ==
  (DisjointScenario /\ Returned) =>
    /\ Len(clusters) = 2
    /\ ret = << 1, 2 >>
    /\ suspects[1].start = Scaled(10) /\ suspects[1].end = Scaled(20)
    /\ suspects[2].start = Scaled(200) /\ suspects[2].end = Scaled(210)
    /\ clusters[1].snip_end <= clusters[2].snip_start

\* C13 amended: with the default settings, deduplicate on a text holding a
\* linker suspect at [10,20) and a regex suspect at [200,210) does not raise,
\* builds one cluster holding both suspects (their preliminary windows reach
\* at least 120 characters towards each other and overlap) and returns only
\* the linker suspect, its span unchanged.
C13_OneCluster ==
  DisjointScenario =>
    /\ pc # "raised"
    /\ pc \in {"snippets", "reconcile", "emit", "done"} =>
         (Len(clusters) = 1 /\ clusters[1].members = << 1, 2 >>)
    /\ Returned =>
         /\ ret = << 1 >>
         /\ suspects[1].start = Scaled(10) /\ suspects[1].end = Scaled(20)
         /\ suspects[1].suspect_string = PySlice(text, Scaled(10), Scaled(20))
         /\ suspects[1].detector_type = "linker"

\* The documented input with a sentence ending between the two suspects, returned.
C13_Witness ==
  /\ DisjointScenario /\ Returned
  /\ \E p \in Scaled(20)..(Scaled(200) - 1) : is_hard_break(text, p)

\* ------------------------ _reconcile_adjacent_clusters called on any clusters
ReconcileAlphabet == {"a", "."}
\* texts of MaxText characters with at most one full stop
ReconcileTexts ==
  { t \in TextsOfLen(ReconcileAlphabet, MaxText) :
      Cardinality({ k \in 1..Len(t) : t[k] = "." }) <= 1 }
\* A cluster of one member whose snippet contains its coverage: coverage
\* [b, c) inside snippet [a, d), the member's span being the coverage.
ClusterShapes(n) ==
  { sh \in (0..n) \X (0..n) \X (0..n) \X (0..n) :
      sh[1] <= sh[2] /\ sh[2] <= sh[3] /\ sh[3] <= sh[4] }
\* the shapes whose snippet is the coverage itself or the whole text
NarrowShapes(n) ==
  { sh \in ClusterShapes(n) :
      (sh[1] = sh[2] /\ sh[3] = sh[4]) \/ (sh[1] = 0 /\ sh[4] = n) }

\* _reconcile_adjacent_clusters is entered with a list of two clusters of any
\* shape and any detector, or of three regex clusters of a narrow shape.
InitReconcile ==
  /\ pc = "reconcile"
  /\ fn = "_reconcile_adjacent_clusters"
  /\ text \in ReconcileTexts
  /\ LET cluster(id, sh) ==
           [Cluster(<< id >>, sh[1], sh[4], sh[2], sh[3])
              EXCEPT !.snip_start = sh[1], !.snip_end = sh[4], !.rep = Some(id)]
     IN \/ \E sh1 \in ClusterShapes(Len(text)), sh2 \in ClusterShapes(Len(text)),
              d1 \in {"linker", "regex"}, d2 \in {"linker", "regex"} :
             /\ args \in [snippet_min_chars : MinCharsChoices, snippet_max_chars : {None},
                          prefer_linker_edges : BOOLEAN]
             /\ suspects = << CitationSuspect(text, << sh1[2], sh1[3] >>, d1),
                              CitationSuspect(text, << sh2[2], sh2[3] >>, d2) >>
             /\ clusters = << cluster(1, sh1), cluster(2, sh2) >>
        \/ \E sh1 \in NarrowShapes(Len(text)), sh2 \in NarrowShapes(Len(text)),
              sh3 \in NarrowShapes(Len(text)) :
             /\ args \in [snippet_min_chars : MinCharsChoices, snippet_max_chars : {None},
                          prefer_linker_edges : {FALSE}]
             /\ suspects = << CitationSuspect(text, << sh1[2], sh1[3] >>, "regex"),
                              CitationSuspect(text, << sh2[2], sh2[3] >>, "regex"),
                              CitationSuspect(text, << sh3[2], sh3[3] >>, "regex") >>
             /\ clusters = << cluster(1, sh1), cluster(2, sh2), cluster(3, sh3) >>
  /\ i = 1
  /\ linker_citations = << >>
  /\ regex_citations = << >>
  /\ ret = None
  /\ exc = ""
  /\ link_sorted = << >>
  /\ regex_kept = << >>
  /\ windows = << >>
  /\ linker_env = None
  /\ calls = << >>
  /\ other = None

\* the loop of _reconcile_adjacent_clusters, its return, and the emission of
\* the representatives that follows it in deduplicate
NextReconcile == ReconcileStep \/ ReconcileReturn \/ EmitStep

SpecReconcile == InitReconcile /\ [][NextReconcile]_vars

\* C14: for clusters whose snippets contain their coverage, whenever two
\* adjacent clusters have overlapping snippets but non-overlapping coverage,
\* the reconciliation step leaves the left cluster's snip_end <= the right
\* cluster's snip_start, so the two snippets no longer overlap.
C14_TrimRemovesOverlap ==
  [][ ( /\ pc = "reconcile" /\ i < Len(clusters)
        /\ overlaps(<< clusters[i].snip_start, clusters[i].snip_end >>,
                    << clusters[i + 1].snip_start, clusters[i + 1].snip_end >>)
        /\ clusters[i].cov_end <= clusters[i + 1].cov_start )
      => ( /\ Len(clusters') = Len(clusters)
           /\ clusters'[i].snip_end <= clusters'[i + 1].snip_start ) ]_vars

\* ----------------------------------------- stage order of detect_with_metrics
\* The use_linker a call asks for: its own argument, else the detector's setting.
UseLinkerAsked ==
  IF args.use_linker # None THEN args.use_linker[1] ELSE args.self_use_linker
ExpectedCalls ==
  (IF UseLinkerAsked THEN << "run_linker" >> ELSE << >>) \o << "run_scanner", "deduplicate" >>
Count(name) == Cardinality({ k \in 1..Len(calls) : calls[k] = name })

\* C17: in every run of detect_with_metrics the stages happen in a fixed order:
\* the linker is invoked at most once (exactly once when use_linker is true,
\* never when it is false) and finishes or fails before the scanner starts;
\* the scanner runs exactly once before deduplicate starts; a failed linker
\* call is never retried.
C17_StageOrder ==
  fn = "detect_with_metrics" =>
    /\ Len(calls) <= Len(ExpectedCalls)
    /\ \A k \in 1..Len(calls) : calls[k] = ExpectedCalls[k]
    /\ Count("run_linker") <= 1
    /\ pc # "linker" => Count("run_linker") = (IF UseLinkerAsked THEN 1 ELSE 0)
    /\ Invoked("run_scanner") => pc # "linker"
    /\ Invoked("deduplicate") => (Count("run_scanner") = 1 /\ Count("deduplicate") = 1)
    /\ pc = "dedup" => Count("run_scanner") = 1

\* The linker failed, the scanner ran after it and deduplicate was then called.
C17_Witness ==
  /\ fn = "detect_with_metrics"
  /\ LinkerFailed
  /\ calls = << "run_linker", "run_scanner", "deduplicate" >>

\* ---------------------------------------------- frame effect of deduplicate
ReturnedIds(r) == { r[k] : k \in 1..Len(r) }

\* C18: deduplicate changes no field of any input suspect other than
\* context_snippet of the suspects it returns: start, end, suspect_string,
\* detector_type and identified_citations stay as they were, suspects that are
\* not returned are left entirely unchanged, and the input lists are not altered.
C18_Frame ==
  [][ fn = "deduplicate" =>
        /\ DOMAIN suspects' = DOMAIN suspects
        /\ linker_citations' = linker_citations
        /\ regex_citations' = regex_citations
        /\ \A id \in DOMAIN suspects :
             /\ suspects'[id].start = suspects[id].start
             /\ suspects'[id].end = suspects[id].end
             /\ suspects'[id].suspect_string = suspects[id].suspect_string
             /\ suspects'[id].detector_type = suspects[id].detector_type
             /\ suspects'[id].identified_citations = suspects[id].identified_citations
             /\ id \notin ReturnedIds(ret') => suspects'[id] = suspects[id] ]_vars

\* deduplicate returned one suspect with a non-empty snippet and left another
\* input suspect, a member of the same cluster, out of its result.
C18_Witness ==
  /\ Returned /\ fn = "deduplicate"
  /\ Len(ret) = 1 /\ Len(clusters) = 1 /\ Len(clusters[1].members) = 2
  /\ suspects[ret[1]].context_snippet # << >>
  /\ \E id \in DOMAIN suspects : id \notin ReturnedIds(ret) /\ suspects[id].context_snippet = << >>

\* ------------------------------------ reconciliation as called by deduplicate
\* The clusters as steps 3 and 4 of deduplicate leave them.
ClustersAfterStep4 ==
  LET built == build_clusters(windows, suspects)
      rng(cl) == compute_cluster_snippet_range(text, cl, suspects,
                   args.snippet_min_chars, args.snippet_max_chars, args.prefer_linker_edges)
  IN [ k \in 1..Len(built) |->
         [built[k] EXCEPT !.snip_start = rng(built[k])[1],
                          !.snip_end = rng(built[k])[2],
                          !.rep = Some(choose_representative(built[k], suspects))] ]

\* C20: after step 4 of deduplicate every cluster's snippet lies inside its
\* preliminary window and consecutive clusters satisfy prev.snip_end <
\* curr.snip_start and prev.cov_end < curr.cov_start; hence the reconciliation
\* loop never merges and never trims, and the clusters deduplicate emits are
\* those of step 4, as with the reconciliation step removed.
C20_ReconcileIsNoOp ==
  [][ fn = "deduplicate" =>
        /\ pc = "reconcile" =>
             /\ \A k \in 1..Len(clusters) :
                  /\ clusters[k].prelim_left <= clusters[k].snip_start
                  /\ clusters[k].snip_end <= clusters[k].prelim_right
             /\ \A k \in 1..(Len(clusters) - 1) :
                  /\ clusters[k].snip_end < clusters[k + 1].snip_start
                  /\ clusters[k].cov_end < clusters[k + 1].cov_start
             /\ clusters' = clusters
             /\ pc' \in {"reconcile", "emit"}
        /\ pc = "emit" => clusters = ClustersAfterStep4 ]_vars

\* Two clusters with non-empty snippets came out of the reconciliation loop.
C20_Witness ==
  /\ fn = "deduplicate" /\ pc = "emit" /\ i = 2
  /\ Len(clusters) = 2
  /\ \A k \in 1..2 : clusters[k].snip_start < clusters[k].snip_end

\* -------------------------- two detect_with_metrics calls running concurrently
\* Two calls, on different texts, each with its own frame of locals; the
\* objects they build live on the one heap. The running call's frame is in the
\* variables, the suspended call's frame is in other, and a switch of threads
\* between two statements exchanges them.
Frame ==
  [ id |-> 3 - other.id, pc |-> pc, text |-> text, args |-> args, ret |-> ret, exc |-> exc,
    linker_citations |-> linker_citations, regex_citations |-> regex_citations,
    linker_env |-> linker_env, calls |-> calls ]

ConcurrentTexts == { << "a" >>, << "." >> }
DetectorSettings == [self_use_linker : BOOLEAN, use_linker : {None}]

InitConcurrent ==
  /\ pc = "linker"
  /\ fn = "detect_with_metrics"
  /\ text \in ConcurrentTexts
  /\ args \in DetectorSettings
  /\ ret = None
  /\ exc = ""
  /\ suspects = << >>
  /\ linker_citations = << >>
  /\ regex_citations = << >>
  /\ link_sorted = << >>
  /\ regex_kept = << >>
  /\ windows = << >>
  /\ clusters = << >>
  /\ i = 0
  /\ linker_env = None
  /\ calls = << >>
  /\ \E t \in ConcurrentTexts \ {text}, a \in DetectorSettings :
       other = [ id |-> 2, pc |-> "linker", text |-> t, args |-> a, ret |-> None,
                 exc |-> "", linker_citations |-> << >>, regex_citations |-> << >>,
                 linker_env |-> None, calls |-> << >> ]

\* The interpreter switches threads: the suspended call resumes where it was.
Switch ==
  /\ other # None
  /\ other' = Frame
  /\ pc' = other.pc
  /\ text' = other.text
  /\ args' = other.args
  /\ ret' = other.ret
  /\ exc' = other.exc
  /\ linker_citations' = other.linker_citations
  /\ regex_citations' = other.regex_citations
  /\ linker_env' = other.linker_env
  /\ calls' = other.calls
  /\ UNCHANGED << fn, suspects, dedupLocals >>

NextConcurrent == LinkerStage \/ ScannerStage \/ DedupStage \/ Switch

SpecConcurrent == InitConcurrent /\ [][NextConcurrent]_vars

\* --------------------------------------------- properties of concurrent calls
OwnIds(f) ==
  { f.linker_citations[k] : k \in 1..Len(f.linker_citations) }
    \cup { f.regex_citations[k] : k \in 1..Len(f.regex_citations) }
SpansOf(ids) == [ k \in 1..Len(ids) |-> << suspects[ids[k]].start, suspects[ids[k]].end >> ]
FrameUsesLinker(f) ==
  IF f.args.use_linker # None THEN f.args.use_linker[1] ELSE f.args.self_use_linker

\* What a call run alone has at its position, given its text, its settings and
\* what its own linker subprocess did.
AsRunAlone(f) ==
  LET linked == f.linker_env # None
      r == run_linker(f.linker_env[1])
  IN /\ linked = (FrameUsesLinker(f) /\ f.pc # "linker")
     /\ SpansOf(f.linker_citations) =
          (IF linked /\ r.exc = "" THEN r.references ELSE << >>)
     /\ f.calls = SubSeq((IF FrameUsesLinker(f) THEN << "run_linker" >> ELSE << >>)
                           \o << "run_scanner", "deduplicate" >>, 1, Len(f.calls))
     /\ f.exc = (IF linked /\ r.exc \in {"UnicodeDecodeError", "PermissionError"} THEN r.exc
                 ELSE IF Len(f.calls) > 0 /\ f.calls[Len(f.calls)] = "deduplicate"
                   THEN "TypeError" ELSE "")
     /\ (f.pc = "raised") = (f.exc # "")
     /\ \A id \in OwnIds(f) :
          /\ suspects[id].end <= Len(f.text)
          /\ suspects[id].suspect_string = PySlice(f.text, suspects[id].start, suspects[id].end)
          /\ suspects[id].context_snippet = << >>

\* C19: in any interleaving of two detect_with_metrics calls on different
\* texts, on one detector or on two, each call has what it has when run alone:
\* its suspects come from its own text and its own linker run, and no object
\* of one call is referenced by the other.
C19_CallsIndependent ==
  other # None =>
    /\ AsRunAlone(Frame)
    /\ AsRunAlone(other)
    /\ OwnIds(Frame) \cap OwnIds(other) = {}
    /\ \A id \in DOMAIN suspects : id \in OwnIds(Frame) \cup OwnIds(other)

\* Both calls have ended, their statements interleaved: the heap holds a linker
\* suspect of one call, then one of the other, then a regex suspect of the first.
C19_Witness ==
  /\ other # None
  /\ pc = "raised" /\ other.pc = "raised"
  /\ linker_citations = << 1 >> /\ other.linker_citations = << 2 >>
  /\ regex_citations = << 3 >> /\ other.regex_citations = << 4 >>

\* ------------------------------------------ clustering of nearby suspects
KeptIds == { (link_sorted \o regex_kept)[k] : k \in 1..Len(link_sorted \o regex_kept) }
MemberOf(id, k) == \E m \in 1..Len(clusters[k].members) : clusters[k].members[m] = id
Clustered == pc \in {"snippets", "reconcile", "emit", "done"}

\* b starts at or after the end of a, at most 2m - 1 characters later, with
\* min_chars = m >= 1 and max_chars None or >= m
Near(a, b) ==
  LET m == args.snippet_min_chars
      gap == suspects[b].start - suspects[a].end
  IN /\ m >= 1
     /\ args.snippet_max_chars = None \/ args.snippet_max_chars[1] >= m
     /\ 0 <= gap /\ gap <= 2 * m - 1

\* C21: with min_chars = m >= 1 and max_chars None or >= m, two suspects that
\* survive the precedence filter and lie 0..2m-1 characters apart (B.start -
\* A.end) are members of the same cluster whatever the text contains, so
\* deduplicate returns at most one of them.
C21_NearSuspectsCollapse ==
  \A a \in KeptIds, b \in KeptIds :
    (a # b /\ Near(a, b)) =>
      /\ pc # "raised"
      /\ Clustered => \E k \in 1..Len(clusters) : MemberOf(a, k) /\ MemberOf(b, k)
      /\ Returned => ~(\E x \in 1..Len(ret), y \in 1..Len(ret) : ret[x] = a /\ ret[y] = b)

\* two kept suspects exactly 2m - 1 characters apart with a hard break in the
\* gap, and a single suspect returned
C21_Witness ==
  /\ Returned
  /\ Len(ret) = 1
  /\ \E a \in KeptIds, b \in KeptIds :
       /\ a # b /\ Near(a, b)
       /\ suspects[b].start - suspects[a].end = 2 * args.snippet_min_chars - 1
       /\ suspects[a].start < suspects[a].end /\ suspects[b].start < suspects[b].end
       /\ text[suspects[a].end + 1] = "."

\* ------------------------------------------------ shape of _build_clusters
WindowOf(id) == CHOOSE k \in 1..Len(windows) : windows[k][3] = id
WLeft(id) == windows[WindowOf(id)][1]
WRight(id) == windows[WindowOf(id)][2]
\* largest right edge among the first m members of cluster k
RightSoFar(k, m) == SetMax({ WRight(clusters[k].members[j]) : j \in 1..m })

\* C22: _build_clusters partitions the suspects: every suspect is a member of
\* exactly one cluster (once), each member's preliminary window lies inside
\* [prelim_left, prelim_right] of its cluster, a suspect joined the running
\* cluster exactly when its window's left edge was <= the cluster's
\* prelim_right at that moment (touching windows are merged), and consecutive
\* clusters satisfy next.prelim_left > prev.prelim_right.
C22_ClustersPartition ==
  Clustered =>
    /\ \A id \in KeptIds :
         \E k \in 1..Len(clusters) :
           /\ MemberOf(id, k)
           /\ \A k2 \in 1..Len(clusters) : MemberOf(id, k2) => k2 = k
           /\ Cardinality({ m \in 1..Len(clusters[k].members) :
                              clusters[k].members[m] = id }) = 1
           /\ clusters[k].prelim_left <= WLeft(id)
           /\ WRight(id) <= clusters[k].prelim_right
    /\ \A k \in 1..Len(clusters) :
         /\ clusters[k].members # << >>
         /\ \A m \in 1..Len(clusters[k].members) : clusters[k].members[m] \in KeptIds
         /\ \A m \in 2..Len(clusters[k].members) :
              WLeft(clusters[k].members[m]) <= RightSoFar(k, m - 1)
         /\ k > 1 =>
              /\ WLeft(clusters[k].members[1])
                   > RightSoFar(k - 1, Len(clusters[k - 1].members))
              /\ clusters[k].prelim_left > clusters[k - 1].prelim_right

\* two suspects whose windows merely touch share one cluster, and another run
\* ends with two clusters
C22_Witness ==
  /\ Clustered
  /\ Len(clusters) = 1
  /\ Len(clusters[1].members) = 2
  /\ WLeft(clusters[1].members[2]) = WRight(clusters[1].members[1])
  /\ WLeft(clusters[1].members[1]) < WLeft(clusters[1].members[2])

\* ----------------------------------------------- linker edges of a snippet
HasLinkerMember(k) ==
  \E m \in 1..Len(clusters[k].members) :
    suspects[clusters[k].members[m]].detector_type = "linker"
LinkerStartsAt(k, p) ==
  \E m \in 1..Len(clusters[k].members) :
    /\ suspects[clusters[k].members[m]].detector_type = "linker"
    /\ suspects[clusters[k].members[m]].start = p
LinkerEndsAt(k, p) ==
  \E m \in 1..Len(clusters[k].members) :
    /\ suspects[clusters[k].members[m]].detector_type = "linker"
    /\ suspects[clusters[k].members[m]].end = p
\* the unlocked boundary searches from the two ends of the coverage of cluster k
UnlockedLeft(k) ==
  find_left_boundary(text, clusters[k].cov_start,
                     args.snippet_min_chars, args.snippet_max_chars)
UnlockedRight(k) ==
  find_right_boundary(text, clusters[k].cov_end,
                      args.snippet_min_chars, args.snippet_max_chars)

\* C23: a cluster's snippet starts at cov_start exactly when prefer_linker_edges
\* is true and a linker member starts at cov_start, or the unlocked left search
\* finds no position left of cov_start; likewise its snippet ends at cov_end
\* exactly when the right edge is a linker edge or the unlocked right search
\* finds nothing right of cov_end; a cluster without linker member, and every
\* cluster when prefer_linker_edges is false, has the snippet range of the
\* unlocked build_sentence_bounded_range of its coverage.
C23_LinkerEdges ==
  SnippetsComputed =>
    \A k \in 1..Len(clusters) :
      LET cl == clusters[k]
      IN /\ cl.snip_start = cl.cov_start <=>
              \/ args.prefer_linker_edges /\ LinkerStartsAt(k, cl.cov_start)
              \/ UnlockedLeft(k) >= cl.cov_start
         /\ cl.snip_end = cl.cov_end <=>
              \/ args.prefer_linker_edges /\ LinkerEndsAt(k, cl.cov_end)
              \/ UnlockedRight(k) <= cl.cov_end
         /\ (~HasLinkerMember(k) \/ ~args.prefer_linker_edges) =>
              << cl.snip_start, cl.snip_end >> =
                 build_sentence_bounded_range(text, cl.cov_start, cl.cov_end,
                   args.snippet_min_chars, args.snippet_max_chars, FALSE, FALSE)

\* a returned cluster whose left edge is held at a linker start although the
\* unlocked search would go further left, beside a regex member that extends
\* the right edge past the coverage
C23_Witness ==
  /\ Returned
  /\ args.prefer_linker_edges
  /\ \E k \in 1..Len(clusters) :
       /\ LinkerStartsAt(k, clusters[k].cov_start)
       /\ UnlockedLeft(k) # IndexError
       /\ UnlockedLeft(k) < clusters[k].cov_start
       /\ clusters[k].snip_start = clusters[k].cov_start
       /\ ~LinkerEndsAt(k, clusters[k].cov_end)
       /\ clusters[k].snip_end > clusters[k].cov_end

\* -------------------------------------------- representative of a cluster
IsLinker(id) == suspects[id].detector_type = "linker"
MembersOf(k) == { clusters[k].members[m] : m \in 1..Len(clusters[k].members) }
RetIds == IF ret = None THEN {} ELSE { ret[x] : x \in 1..Len(ret) }

\* C24: the representative of every cluster, a merged one included, is a
\* member of it: a linker member of least (start, end) among the linker
\* members if there is one, else a member of least (start, end); deduplicate's
\* output holds the representative of each cluster and no other member, hence
\* no regex suspect of a cluster that holds a linker suspect.
C24_Representative ==
  SnippetsComputed =>
    \A k \in 1..Len(clusters) :
      /\ clusters[k].rep # None
      /\ LET rep == clusters[k].rep[1]
             linkers == { id \in MembersOf(k) : IsLinker(id) }
             among == IF linkers # {} THEN linkers ELSE MembersOf(k)
         IN /\ rep \in among
            /\ \A id \in among :
                 ~KeyLess(SpanKey(suspects)[id], SpanKey(suspects)[rep])
            /\ Returned =>
                 /\ rep \in RetIds
                 /\ \A id \in MembersOf(k) : id # rep => id \notin RetIds
                 /\ linkers # {} => \A id \in MembersOf(k) : ~IsLinker(id) => id \notin RetIds

\* a merge put a regex suspect in front of a linker suspect that starts later,
\* and the linker suspect alone is returned
C24_Witness ==
  /\ Returned
  /\ Len(clusters) = 1
  /\ clusters[1].members = << 1, 2 >>
  /\ ~IsLinker(1) /\ IsLinker(2)
  /\ suspects[1].start < suspects[2].start
  /\ ret = << 2 >>

\* ------------------------------------- termination of the reconcile loop
InLoop == pc = "reconcile" /\ i < Len(clusters)

\* C25: _reconcile_adjacent_clusters terminates on every list of clusters:
\* every iteration either advances i and keeps the number of clusters, or keeps
\* i and has one cluster less (a merge); the list never grows, so at most
\* (initial count - 1) merges happen, the initial count being the number of
\* suspects, one per cluster; 2 * len(clusters) - i falls with every
\* iteration and is never negative, which bounds the number of iterations.
C25_ReconcileTerminates ==
  /\ [][ InLoop =>
           \/ i' = i + 1 /\ Len(clusters') = Len(clusters)
           \/ i' = i /\ Len(clusters') = Len(clusters) - 1 ]_vars
  /\ [][ InLoop => 2 * Len(clusters') - i' < 2 * Len(clusters) - i ]_vars
  /\ [](1 <= Len(clusters) /\ Len(clusters) <= Len(suspects) /\ i <= Len(clusters))

\* a list of three clusters was merged twice and the call returned one cluster
C25_Witness ==
  /\ pc = "emit"
  /\ Len(suspects) = 3
  /\ Len(clusters) = 1

\* ------------------------------------------------- the trim and the merge
\* the branch of the loop body taken for clusters[i], clusters[i + 1]
SnippetsApart == clusters[i].snip_end <= clusters[i + 1].snip_start
CoverageOverlaps == clusters[i].cov_end > clusters[i + 1].cov_start
Trims == InLoop /\ ~SnippetsApart /\ ~CoverageOverlaps
Merges == InLoop /\ ~SnippetsApart /\ CoverageOverlaps
TrimmedEnd ==
  Max2(clusters[i].cov_end, Min2(clusters[i].snip_end, clusters[i + 1].snip_start))

\* C26: when _reconcile_adjacent_clusters trims (the left snippet reaches past
\* the start of the right one, the coverages do not overlap), the only field
\* that changes is the left cluster's snip_end, which becomes
\* max(cov_end, min(snip_end, right.snip_start)), a value >= its cov_end and
\* <= its old snip_end; the right cluster, every other cluster, the left
\* cluster's other fields and the suspects are unchanged.
C26_TrimFrame ==
  [][ Trims =>
        /\ clusters' = [clusters EXCEPT ![i].snip_end = TrimmedEnd]
        /\ clusters'[i].snip_end >= clusters[i].cov_end
        /\ clusters'[i].snip_end <= clusters[i].snip_end
        /\ clusters'[i + 1] = clusters[i + 1]
        /\ clusters'[i].snip_start = clusters[i].snip_start
        /\ clusters'[i].members = clusters[i].members
        /\ clusters'[i].cov_start = clusters[i].cov_start
        /\ clusters'[i].cov_end = clusters[i].cov_end
        /\ suspects' = suspects ]_vars

\* after a trim that shortened the left snippet down to its coverage end,
\* which lies right of the right snippet's start
C26_Witness ==
  /\ pc = "reconcile"
  /\ i = 2
  /\ Len(suspects) = 2 /\ Len(clusters) = 2
  /\ clusters[1].snip_end = clusters[1].cov_end
  /\ clusters[1].snip_end < clusters[1].prelim_right
  /\ clusters[1].snip_end > clusters[2].snip_start

\* C27: boundary-exact adjacency counts as no overlap: when prev.snip_end =
\* curr.snip_start the iteration changes no cluster; when the snippets overlap
\* and prev.cov_end = curr.cov_start the clusters are trimmed, not merged; a
\* merge happens only when prev.snip_end > curr.snip_start and prev.cov_end >
\* curr.cov_start; and after a merge the index stays, so the merged cluster
\* (members of prev, then of curr) faces the old clusters[i + 1] next.
C27_ExactAdjacency ==
  [][ InLoop =>
        /\ clusters[i].snip_end = clusters[i + 1].snip_start =>
             clusters' = clusters /\ i' = i + 1
        /\ (~SnippetsApart /\ clusters[i].cov_end = clusters[i + 1].cov_start) =>
             /\ Len(clusters') = Len(clusters)
             /\ clusters'[i].members = clusters[i].members
             /\ clusters'[i + 1] = clusters[i + 1]
             /\ clusters'[i].snip_end = TrimmedEnd
        /\ Len(clusters') < Len(clusters) <=> Merges
        /\ Merges =>
             /\ i' = i
             /\ clusters'[i].members = clusters[i].members \o clusters[i + 1].members
             /\ \A k \in (i + 1)..Len(clusters') : clusters'[k] = clusters[k + 1] ]_vars

\* a merged cluster faces its new right neighbour, whose coverage starts where
\* the merged coverage ends while the snippets overlap
C27_Witness ==
  /\ InLoop
  /\ i = 1
  /\ Len(suspects) = 3 /\ Len(clusters) = 2
  /\ clusters[1].members = << 1, 2 >>
  /\ ~SnippetsApart
  /\ clusters[1].cov_end = clusters[2].cov_start

\* ------------------------------------------------------ the max_chars limit
\* C28: for every integer max_chars >= 0, 0 included, the window returned by
\* build_sentence_bounded_range for a span 0 <= start <= end <= len(text)
\* reaches at most max_chars characters beyond the span on each side:
\* start - left <= max_chars and right - end <= max_chars.
C28_WindowWithinMaxChars ==
  ( /\ Returns /\ fn = "build_sentence_bounded_range" /\ exc = ""
    /\ 0 <= args.start /\ args.start <= args.end /\ args.end <= Len(text)
    /\ args.max_chars # None ) =>
    /\ args.start - ret[1] <= args.max_chars[1]
    /\ ret[2] - args.end <= args.max_chars[1]

\* ------------------------------------------- deduplicate called a second time
\* A span with its detector; lists of at most two of them, or of three that
\* are not empty, in a canonical order: linker before regex, then by
\* (start, end).
TypedSpans(n) == Spans(n) \X {"linker", "regex"}
NonEmptyTypedSpans(n) == { ts \in TypedSpans(n) : ts[1][1] < ts[1][2] }
Rank(ts, n) ==
  (IF ts[2] = "linker" THEN 0 ELSE (n + 1) * (n + 1)) + ts[1][1] * (n + 1) + ts[1][2]
TypedSpanLists(n) ==
  { << >> } \cup { << a >> : a \in TypedSpans(n) }
    \cup { ab \in TypedSpans(n) \X TypedSpans(n) : Rank(ab[1], n) <= Rank(ab[2], n) }
    \cup { abc \in TypedSpans(n) \X TypedSpans(n) \X TypedSpans(n) :
             Rank(abc[1], n) <= Rank(abc[2], n) /\ Rank(abc[2], n) <= Rank(abc[3], n) }

\* the lists that hold the elements of xs in some order
Orderings(xs) ==
  { [k \in 1..Len(xs) |-> xs[p[k]]] :
      p \in { q \in [1..Len(xs) -> 1..Len(xs)] :
                \A a \in 1..Len(xs), b \in 1..Len(xs) : a # b => q[a] # q[b] } }

InitRerun ==
  /\ pc = "filter"
  /\ fn = "deduplicate"
  /\ text \in TextsOfLen(ReconcileAlphabet, MaxText)
  /\ args \in [snippet_min_chars : MinCharsChoices, snippet_max_chars : {None},
               prefer_linker_edges : {TRUE}]
  /\ \E ss \in TypedSpanLists(Len(text)) :
       /\ suspects = [ id \in 1..Len(ss) |-> CitationSuspect(text, ss[id][1], ss[id][2]) ]
       /\ linker_citations = SelectSeq([ id \in 1..Len(ss) |-> id ],
                                       LAMBDA id : ss[id][2] = "linker")
       /\ regex_citations = SelectSeq([ id \in 1..Len(ss) |-> id ],
                                      LAMBDA id : ss[id][2] = "regex")
  /\ ret = None
  /\ exc = ""
  /\ link_sorted = << >>
  /\ regex_kept = << >>
  /\ windows = << >>
  /\ clusters = << >>
  /\ i = 0
  /\ linker_env = None
  /\ calls = << >>
  /\ other = None

\* (start, end, detector_type, context_snippet) of the suspects of a list
Content(ids) ==
  [ k \in 1..Len(ids) |->
      << suspects[ids[k]].start, suspects[ids[k]].end,
         suspects[ids[k]].detector_type, suspects[ids[k]].context_snippet >> ]
\* how the call that just ended came out
Outcome ==
  [ raised |-> pc = "raised",
    items |-> IF pc = "done" THEN Content(ret) ELSE << >> ]

\* a new call of deduplicate with the lists ls and rs, same text and parameters
SecondCall(ls, rs) ==
  /\ linker_citations' = ls
  /\ regex_citations' = rs
  /\ pc' = "filter"
  /\ ret' = None
  /\ exc' = ""
  /\ link_sorted' = << >>
  /\ regex_kept' = << >>
  /\ windows' = << >>
  /\ clusters' = << >>
  /\ i' = 0
  /\ UNCHANGED << text, fn, args, suspects, linker_env, calls >>

\* the returned suspects are fed back in, split by detector
Refeed ==
  /\ pc = "done"
  /\ other = None
  /\ other' = Some([call |-> "refeed", first |-> Outcome, ids |-> ret])
  /\ SecondCall(SelectSeq(ret, LAMBDA id : suspects[id].detector_type = "linker"),
                SelectSeq(ret, LAMBDA id : suspects[id].detector_type = "regex"))

\* the same suspects are given again with the lists in another order
CallPermuted ==
  /\ pc \in {"done", "raised"}
  /\ other = None
  /\ other' = Some([call |-> "permuted", first |-> Outcome,
                    ids |-> IF pc = "done" THEN ret ELSE << >>])
  /\ \E pl \in Orderings(linker_citations), pr \in Orderings(regex_citations) :
       /\ << pl, pr >> # << linker_citations, regex_citations >>
       /\ SecondCall(pl, pr)

NextRerun == NextDedup \/ Refeed \/ CallPermuted

SpecRerun == InitRerun /\ [][NextRerun]_vars

SecondEnded(how) ==
  /\ other # None
  /\ other[1].call = how
  /\ pc \in {"done", "raised"}

\* C29: deduplicate is idempotent on suspects: called again on its own output
\* (the returned linker suspects as linker list, the returned regex suspects
\* as regex list, same text and parameters) it does not raise and returns the
\* same suspects in the same order, hence the same sequence of (start, end,
\* detector_type); none is filtered or merged away.
C29_Idempotent ==
  SecondEnded("refeed") =>
    /\ pc = "done"
    /\ ret = other[1].ids
    /\ [ k \in 1..Len(ret) |-> SubSeq(Content(ret)[k], 1, 3) ] =
         [ k \in 1..Len(other[1].first.items) |-> SubSeq(other[1].first.items[k], 1, 3) ]

\* the first call dropped one of three suspects and returned a linker and a
\* regex suspect; the second call has ended
C29_Witness ==
  /\ SecondEnded("refeed")
  /\ Len(suspects) = 3
  /\ Len(other[1].ids) = 2
  /\ suspects[other[1].ids[1]].detector_type # suspects[other[1].ids[2]].detector_type

\* C30: the result of deduplicate does not depend on the order of its input
\* lists: with the lists permuted, the call raises if and only if it raised
\* before and returns the same sequence of (start, end, detector_type,
\* context_snippet); and the start positions of every returned sequence are
\* strictly increasing.
C30_OrderIndependent ==
  /\ Returned => \A k \in 1..(Len(ret) - 1) :
                   suspects[ret[k]].start < suspects[ret[k + 1]].start
  /\ SecondEnded("permuted") => Outcome = other[1].first

\* a call whose linker list is in descending order returned two suspects, as
\* the call on the ordered list had
C30_Witness ==
  /\ SecondEnded("permuted")
  /\ Len(linker_citations) >= 2
  /\ suspects[linker_citations[1]].start > suspects[linker_citations[2]].start
  /\ Returned
  /\ Len(ret) = 2

============================================================================
